---- MODULE Spec2Model ----
(***************************************************************************)
(* Model of the news-trend content pipeline: the Flask run tracker of      *)
(* app.py (trigger_pipeline, run_pipeline_async, the status and results    *)
(* endpoints) and the orchestrator run_pipeline of main.py.                *)
(*                                                                         *)
(* Flask serves every request on a thread of its own and trigger_pipeline  *)
(* starts run_pipeline_async on a further daemon thread, so the statements *)
(* that read or write the shared dict pipeline_status, or the files of the *)
(* output directory, interleave.  Each such statement is one step; runs of *)
(* statements that touch only locals of one thread are folded into the     *)
(* step that precedes them.  The label of a step is the source line it     *)
(* starts at ("l88" is app.py line 88, "l136" is main.py line 136).         *)
(***************************************************************************)
EXTENDS Integers, Sequences, FiniteSets, TLC

\* ---------------------------------------------------------------- bounds
\* Number of POST /trend-news requests the clients send in one behaviour.
MaxStarts == 2
\* Largest MAX_TRENDS / MAX_NEWS_PER_TREND the configuration is drawn from.
MaxTrends == 2
MaxNews == 2

Req == 1..MaxStarts

\* ------------------------------------------------------------- constants
\* "last_run": None (app.py line 39); real timestamps are 1, 2, ...
NoTime == 0
\* HTTP status codes of trigger_pipeline and get_pipeline_results.
Accepted202 == 202
Conflict409 == 409
NotFound404 == 404
Ok200 == 200

VARIABLES
  pipeline_status,  \* app.py 37-42: the global run state
  clock,            \* datetime.now(): the last timestamp handed out
  hpc,              \* per start request: position of its trigger_pipeline handler
  resp,             \* per start request: the response it got
  tpc,              \* per start request: position of its background thread
  loc,              \* per background thread: locals of run_pipeline_async / run_pipeline
  results_file,     \* output/results.json
  trends_file,      \* output/trends.json: 0 absent, r written by run r
  disk,             \* the article markup and image files of output/
  cfg,              \* config.py: MAX_TRENDS, MAX_NEWS_PER_TREND, WordPress credentials
  nstarts,          \* number of POST /trend-news requests the clients will send
  status_resp,      \* the last answer of GET /trend-news/status
  results_resp,     \* the last answer of GET /trend-news/results
  since             \* what happened since the last status() / results() answer

vars == <<pipeline_status, clock, hpc, resp, tpc, loc, results_file, trends_file,
          disk, cfg, nstarts, status_resp, results_resp, since>>

\* ------------------------------------------------------------ data model
\* "results": None (app.py line 41) and a Run Summary (main.py 274-278).  The
\* field run stands for the summary's timestamp: it names the run that wrote it.
NoSummary == [run |-> 0, total_processed |-> 0, results |-> <<>>]
\* A summary whose count is one too high.
SummaryCountsOneMore(r, results) ==
  [run |-> r, total_processed |-> Len(results) + 1, results |-> results]

Summary(r, results) == [run |-> r, total_processed |-> Len(results), results |-> results]

\* A path of the output directory.  save_article_to_file and the image provider
\* derive the name from the title and the time, so each article of each run has
\* a markup path and an image path of its own.
Path(kind, r, ti, ai) == [kind |-> kind, run |-> r, trend |-> ti, art |-> ai]
\* A local that no assignment has reached yet, and the value None.
Unbound == Path("unbound", 0, 0, 0)
NonePath == Path("none", 0, 0, 0)

\* The response of a start request that has not been answered yet.
NoResp == [code |-> 0, started_at |-> NoTime]
\* The answer of a poll that has not been made yet.
\* quiet: an earlier answer exists and nothing was noted in since between the two.
NoStatusResp ==
  [code |-> 0, is_running |-> FALSE, last_run |-> NoTime, last_status |-> "None",
   quiet |-> FALSE]
NoResultsResp == [code |-> 0, body |-> NoSummary, quiet |-> FALSE]

\* The locals of a background thread before run_pipeline is entered.
InitLoc ==
  [ success |-> "unset",      \* app.py 53: "true"/"false" once run_pipeline returned
    ntrends |-> 0,            \* len(trends), main.py 123
    ti |-> 0,                 \* the trend being processed (1-based), main.py 136
    nnews |-> 0,              \* len(news_articles), main.py 140
    ai |-> 0,                 \* the article being processed (1-based), main.py 149
    post_id |-> "unbound",    \* main.py 209: "unbound", "none" or "id"
    file_path |-> Unbound,    \* main.py 190
    image_path |-> Unbound,   \* main.py 194
    last |-> "none",          \* how the processing of the last candidate ended
    results |-> <<>> ]        \* main.py 118

\* os.path.exists(results.json) and whether json.load can parse it.
FileExists(f) == f.state # "absent"
FileLoads(f) == f.state = "valid"
NoFile == [state |-> "absent", summary |-> NoSummary]
Truncated == [state |-> "partial", summary |-> NoSummary]
Corrupt == [state |-> "corrupt", summary |-> NoSummary]
Valid(s) == [state |-> "valid", summary |-> s]

\* --------------------------------------------------------- initial state
\* pipeline_status as app.py 37-42 builds it, an empty output directory, no
\* request sent yet.  The configuration is read once, from the environment.
InitStatus ==
  [is_running |-> FALSE, last_run |-> NoTime, last_status |-> "None", results |-> NoSummary]

InitCommon ==
  /\ pipeline_status = InitStatus
  /\ clock = 0
  /\ hpc = [r \in Req |-> "new"]
  /\ resp = [r \in Req |-> NoResp]
  /\ tpc = [r \in Req |-> "idle"]
  /\ loc = [r \in Req |-> InitLoc]
  /\ results_file = NoFile
  /\ trends_file = 0
  /\ disk = {}
  /\ status_resp = NoStatusResp
  /\ results_resp = NoResultsResp
  /\ since = [start |-> FALSE, write |-> FALSE, rstart |-> FALSE, rwrite |-> FALSE]

\* Concurrent clients: MaxStarts start requests against the smallest
\* configuration (MAX_TRENDS = 1, MAX_NEWS_PER_TREND = 1), with and without
\* WordPress credentials.
Init ==
  /\ InitCommon
  /\ nstarts = MaxStarts
  /\ cfg \in [max_trends : {1}, max_news : {1}, wordpress : BOOLEAN]

\* One start request and any number of polls against the smallest configuration.
PollInit ==
  /\ InitCommon
  /\ nstarts = 1
  /\ cfg \in [max_trends : {1}, max_news : {1}, wordpress : BOOLEAN]

\* One run under every configuration of config.py within the bounds.
PipeInit ==
  /\ InitCommon
  /\ nstarts = 1
  /\ cfg \in [max_trends : 1..MaxTrends, max_news : 1..MaxNews, wordpress : BOOLEAN]

\* ------------------------------------------------------- helper updates
\* What the clients saw happen since their last status() / results() answer:
\* a start request (start, rstart) or a write of pipeline_status (write, rwrite).
Note(isStart, isWrite) ==
  since' = [ start  |-> since.start  \/ (isStart /\ status_resp.code # 0),
             write  |-> since.write  \/ (isWrite /\ status_resp.code # 0),
             rstart |-> since.rstart \/ (isStart /\ results_resp.code # 0),
             rwrite |-> since.rwrite \/ (isWrite /\ results_resp.code # 0) ]

Alive(r) == tpc[r] \notin {"idle", "done"}

\* ------------------------------------------- trigger_pipeline (app.py 74-96)
\* app.py 80: the request arrives and the handler reads is_running.  Requests
\* are numbered in the order in which their handlers reach this line.
TriggerCheck(r) ==
  /\ hpc[r] = "new"
  /\ r <= nstarts
  /\ IF r = 1 THEN TRUE ELSE hpc[r - 1] # "new"
  /\ hpc' = [hpc EXCEPT ![r] = IF pipeline_status.is_running THEN "l81" ELSE "l88"]
  /\ Note(TRUE, FALSE)
  /\ UNCHANGED <<pipeline_status, clock, resp, tpc, loc, results_file, trends_file,
                 disk, cfg, nstarts, status_resp, results_resp>>

\* A rejection that also clears is_running, as if to release a stuck flag.
TriggerRejectClears(r) ==
  /\ hpc[r] = "l81"
  /\ hpc' = [hpc EXCEPT ![r] = "done"]
  /\ resp' = [resp EXCEPT ![r] = [code |-> Conflict409,
                                  started_at |-> pipeline_status.last_run]]
  /\ pipeline_status' = [pipeline_status EXCEPT !.is_running = FALSE]
  /\ UNCHANGED <<clock, tpc, loc, results_file, trends_file,
                 disk, cfg, nstarts, status_resp, results_resp, since>>

\* app.py 81-85: the 409 answer, built from last_run as it is now.
TriggerReject(r) ==
  /\ hpc[r] = "l81"
  /\ hpc' = [hpc EXCEPT ![r] = "done"]
  /\ resp' = [resp EXCEPT ![r] = [code |-> Conflict409,
                                  started_at |-> pipeline_status.last_run]]
  /\ UNCHANGED <<pipeline_status, clock, tpc, loc, results_file, trends_file,
                 disk, cfg, nstarts, status_resp, results_resp, since>>

\* app.py 88-90: the daemon thread is created and started; nothing of
\* pipeline_status is written on this path.
TriggerSpawn(r) ==
  /\ hpc[r] = "l88"
  /\ hpc' = [hpc EXCEPT ![r] = "l92"]
  /\ tpc' = [tpc EXCEPT ![r] = "l49"]
  /\ UNCHANGED <<pipeline_status, clock, resp, loc, results_file, trends_file,
                 disk, cfg, nstarts, status_resp, results_resp, since>>

\* app.py 92-96: the 202 answer, built from last_run as it is now.
TriggerAccept(r) ==
  /\ hpc[r] = "l92"
  /\ hpc' = [hpc EXCEPT ![r] = "done"]
  /\ resp' = [resp EXCEPT ![r] = [code |-> Accepted202,
                                  started_at |-> pipeline_status.last_run]]
  /\ UNCHANGED <<pipeline_status, clock, tpc, loc, results_file, trends_file,
                 disk, cfg, nstarts, status_resp, results_resp, since>>

\* ---------------------------------------- run_pipeline_async (app.py 44-72)
\* app.py 49.
AsyncSetRunning(r) ==
  /\ tpc[r] = "l49"
  /\ pipeline_status' = [pipeline_status EXCEPT !.is_running = TRUE]
  /\ tpc' = [tpc EXCEPT ![r] = "l50"]
  /\ Note(FALSE, TRUE)
  /\ UNCHANGED <<clock, hpc, resp, loc, results_file, trends_file, disk, cfg,
                 nstarts, status_resp, results_resp>>

\* app.py 50: datetime.now() is later than every timestamp read before.
AsyncSetLastRun(r) ==
  /\ tpc[r] = "l50"
  /\ clock' = clock + 1
  /\ pipeline_status' = [pipeline_status EXCEPT !.last_run = clock + 1]
  /\ tpc' = [tpc EXCEPT ![r] = "l53"]
  /\ Note(FALSE, TRUE)
  /\ UNCHANGED <<hpc, resp, loc, results_file, trends_file, disk, cfg,
                 nstarts, status_resp, results_resp>>

\* app.py 56: run_pipeline has returned.
AsyncClearRunning(r) ==
  /\ tpc[r] = "l56"
  /\ pipeline_status' = [pipeline_status EXCEPT !.is_running = FALSE]
  /\ tpc' = [tpc EXCEPT ![r] = "l57"]
  /\ Note(FALSE, TRUE)
  /\ UNCHANGED <<clock, hpc, resp, loc, results_file, trends_file, disk, cfg,
                 nstarts, status_resp, results_resp>>

\* app.py 57.
StatusOf(success) == IF success = "true" THEN "success" ELSE "error"

AsyncSetStatus(r) ==
  /\ tpc[r] = "l57"
  /\ pipeline_status' = [pipeline_status EXCEPT !.last_status = StatusOf(loc[r].success)]
  /\ tpc' = [tpc EXCEPT ![r] = "l63"]
  /\ Note(FALSE, TRUE)
  /\ UNCHANGED <<clock, hpc, resp, loc, results_file, trends_file, disk, cfg,
                 nstarts, status_resp, results_resp>>

\* app.py 63-67: results.json is loaded when it exists; json.load raises on a
\* file that holds no complete JSON document, and the handler of line 69 runs.
AsyncLoadResults(r) ==
  /\ tpc[r] = "l63"
  /\ IF ~FileExists(results_file)
       THEN /\ tpc' = [tpc EXCEPT ![r] = "done"]
            /\ UNCHANGED pipeline_status
       ELSE IF FileLoads(results_file)
         THEN /\ tpc' = [tpc EXCEPT ![r] = "done"]
              /\ pipeline_status' = [pipeline_status EXCEPT !.results = results_file.summary]
         ELSE /\ tpc' = [tpc EXCEPT ![r] = "l70"]
              /\ UNCHANGED pipeline_status
  /\ Note(FALSE, FileExists(results_file) /\ FileLoads(results_file))
  /\ UNCHANGED <<clock, hpc, resp, loc, results_file, trends_file, disk, cfg,
                 nstarts, status_resp, results_resp>>

\* An exception handler that sets the status and forgets the flag.
AsyncExceptKeepsRunning(r) ==
  /\ tpc[r] = "l70"
  /\ tpc' = [tpc EXCEPT ![r] = "l71"]
  /\ UNCHANGED <<pipeline_status, clock, hpc, resp, loc, results_file, trends_file,
                 disk, cfg, nstarts, status_resp, results_resp, since>>

\* app.py 70.
AsyncExceptClear(r) ==
  /\ tpc[r] = "l70"
  /\ pipeline_status' = [pipeline_status EXCEPT !.is_running = FALSE]
  /\ tpc' = [tpc EXCEPT ![r] = "l71"]
  /\ Note(FALSE, TRUE)
  /\ UNCHANGED <<clock, hpc, resp, loc, results_file, trends_file, disk, cfg,
                 nstarts, status_resp, results_resp>>

\* app.py 71-72.
AsyncExceptStatus(r) ==
  /\ tpc[r] = "l71"
  /\ pipeline_status' = [pipeline_status EXCEPT !.last_status = "error"]
  /\ tpc' = [tpc EXCEPT ![r] = "done"]
  /\ Note(FALSE, TRUE)
  /\ UNCHANGED <<clock, hpc, resp, loc, results_file, trends_file, disk, cfg,
                 nstarts, status_resp, results_resp>>

\* ---------------------------------------------- run_pipeline (main.py 115-285)
\* What a step of run_pipeline leaves alone besides the files.
PipeFrame == UNCHANGED <<pipeline_status, clock, hpc, resp, cfg, nstarts,
                         status_resp, results_resp, since>>

\* run_pipeline returns to app.py 53: its frame is gone, and of its locals
\* only the returned value lives on, in success.
Returned(value) == [InitLoc EXCEPT !.success = value]

\* main.py 283-285 (and 127): run_pipeline returns False.
ReturnFalse(r) ==
  /\ tpc' = [tpc EXCEPT ![r] = "l56"]
  /\ loc' = [loc EXCEPT ![r] = Returned("false")]

\* The head of the article loop (main.py 149) with candidate ai next: the
\* candidate is processed, or the loop is left for the cleanup of line 255.
ArticleLoopPc(l, ai) == IF ai <= l.nnews THEN "l149" ELSE "l255"

\* A trend loop that is left after its first trend.
TrendLoopPcFirstOnly(l, ti) == IF ti <= 1 THEN "l136" ELSE "l272"

\* The head of the trend loop (main.py 136) with trend ti next: the trend is
\* processed, or the loop is left for line 272.
TrendLoopPc(l, ti) == IF ti <= l.ntrends THEN "l136" ELSE "l272"

\* app.py 53, main.py 117: create_output_directory stands before the try of
\* line 120, so an OSError of os.makedirs leaves run_pipeline and reaches the
\* handler of app.py 69.
RunEnter(r) ==
  /\ tpc[r] = "l53"
  /\ \E ok \in BOOLEAN : tpc' = [tpc EXCEPT ![r] = IF ok THEN "l123" ELSE "l70"]
  /\ UNCHANGED <<loc, results_file, trends_file, disk>>
  /\ PipeFrame

\* A run that goes on with an empty list of trends.
GetTrendsProceeds(r) ==
  /\ tpc[r] = "l123"
  /\ \E n \in 0..cfg.max_trends :
       /\ tpc' = [tpc EXCEPT ![r] = "l132"]
       /\ loc' = [loc EXCEPT ![r].ntrends = n]
  /\ UNCHANGED <<results_file, trends_file, disk>>
  /\ PipeFrame

\* main.py 123-127: get_top_trends returns at most MAX_TRENDS trends, and []
\* on every failure (trends_utils.py 46-67).
GetTrends(r) ==
  /\ tpc[r] = "l123"
  /\ \E n \in 0..cfg.max_trends :
       IF n = 0
         THEN ReturnFalse(r)
         ELSE /\ tpc' = [tpc EXCEPT ![r] = "l132"]
              /\ loc' = [loc EXCEPT ![r].ntrends = n]
  /\ UNCHANGED <<results_file, trends_file, disk>>
  /\ PipeFrame

\* main.py 132-136: trends.json is written and the trend loop is entered.
WriteTrends(r) ==
  /\ tpc[r] = "l132"
  /\ trends_file' = r
  /\ loc' = [loc EXCEPT ![r].ti = 1]
  /\ tpc' = [tpc EXCEPT ![r] = "l136"]
  /\ UNCHANGED <<results_file, disk>>
  /\ PipeFrame

\* A run that gives up at the first trend without news.
GetNewsAborts(r) ==
  /\ tpc[r] = "l136"
  /\ \E n \in 0..cfg.max_news :
       IF n = 0
         THEN ReturnFalse(r)
         ELSE /\ loc' = [loc EXCEPT ![r].nnews = n, ![r].ai = 1]
              /\ tpc' = [tpc EXCEPT ![r] = "l149"]
  /\ UNCHANGED <<results_file, trends_file, disk>>
  /\ PipeFrame

\* main.py 136-149: the news of trend ti.  get_news_for_trend returns at most
\* MAX_NEWS_PER_TREND candidates and [] on every failure (news_utils.py
\* 164-188); with none, line 144 continues with the next trend.
GetNews(r) ==
  /\ tpc[r] = "l136"
  /\ \E n \in 0..cfg.max_news :
       IF n = 0
         THEN /\ loc' = [loc EXCEPT ![r].nnews = 0, ![r].ti = @ + 1]
              /\ tpc' = [tpc EXCEPT ![r] = TrendLoopPc(loc[r], loc[r].ti + 1)]
         ELSE /\ loc' = [loc EXCEPT ![r].nnews = n, ![r].ai = 1]
              /\ tpc' = [tpc EXCEPT ![r] = "l149"]
  /\ UNCHANGED <<results_file, trends_file, disk>>
  /\ PipeFrame

\* main.py 150-152: reading the candidate's fields stands outside the try of
\* line 171; a candidate whose "source" is null makes .get raise, and the
\* exception ends the run at line 283.
ArticleFieldsRaise(r) ==
  /\ tpc[r] = "l149"
  /\ ReturnFalse(r)
  /\ UNCHANGED <<results_file, trends_file, disk>>
  /\ PipeFrame

\* A skip that still records the candidate.
ArticleSkipRecords(r) ==
  /\ tpc[r] = "l149"
  /\ \E why \in {"no_url", "fetch_fail", "save_raise"} :
       loc' = [loc EXCEPT ![r].ai = @ + 1, ![r].last = why,
                          ![r].results = Append(@, [trend |-> loc[r].ti, art |-> loc[r].ai,
                                                    file_path |-> NonePath, image_path |-> NonePath,
                                                    wordpress_id |-> "none", status |-> "not_published"])]
  /\ tpc' = [tpc EXCEPT ![r] = ArticleLoopPc(loc[r], loc[r].ai + 1)]
  /\ UNCHANGED <<results_file, trends_file, disk>>
  /\ PipeFrame

\* The ways one candidate is dropped: no URL (main.py 154-156), no content
\* fetched (163-165), an exception inside the try of line 171 after the
\* rewriter returned its markup, in BeautifulSoup or in save_article_to_file
\* (185-190, 251-253).  All continue with the next candidate.
SkipReasons == {"no_url", "fetch_fail", "save_raise"}

ArticleSkip(r) ==
  /\ tpc[r] = "l149"
  /\ \E why \in SkipReasons : loc' = [loc EXCEPT ![r].ai = @ + 1, ![r].last = why]
  /\ tpc' = [tpc EXCEPT ![r] = ArticleLoopPc(loc[r], loc[r].ai + 1)]
  /\ UNCHANGED <<results_file, trends_file, disk>>
  /\ PipeFrame

\* An entry that carries a publish id whatever the publisher returned.
EntryAlwaysId(ti, ai, file, image, post, status) ==
  [trend |-> ti, art |-> ai, file_path |-> file,
   image_path |-> image, wordpress_id |-> "id", status |-> status]

\* The entry main.py 222-247 appends.
Entry(ti, ai, file, image, post, status) ==
  [trend |-> ti, art |-> ai, file_path |-> file,
   image_path |-> image, wordpress_id |-> post, status |-> status]

\* A status that takes every publish attempt for a success.
PublishStatusOptimistic(configured, pub) ==
  IF ~configured THEN "not_published_no_credentials" ELSE "published"

\* main.py 202, 220, 228-246: the status recorded for the candidate.
PublishStatus(configured, pub) ==
  IF ~configured THEN "not_published_no_credentials"
  ELSE IF pub = "id" THEN "published" ELSE "not_published"

\* The new entry put in front of the list.
PrependResult(results, e) == <<e>> \o results

\* main.py 222, 232, 241: results.append.
AppendResult(results, e) == Append(results, e)

\* A processing that publishes only candidates that got an image.
ArticleProcessImageRequired(r) ==
  /\ tpc[r] = "l149"
  /\ \E markup \in {"rewritten", "fallback"}, img \in BOOLEAN, pub \in {"id", "none"} :
       LET ti == loc[r].ti
           ai == loc[r].ai
           file == Path("html", r, ti, ai)
           image == IF img THEN Path("img", r, ti, ai) ELSE NonePath
           tried == cfg.wordpress /\ img
           post == IF tried THEN pub ELSE loc[r].post_id
           status == PublishStatus(cfg.wordpress, IF img THEN pub ELSE "none")
           wpid == IF tried /\ pub = "id" THEN "id" ELSE "none"
       IN /\ tried \/ pub = "none"
          /\ disk' = disk \cup {file} \cup (IF img THEN {image} ELSE {})
          /\ loc' = [loc EXCEPT ![r].file_path = file,
                                ![r].image_path = image,
                                ![r].post_id = post,
                                ![r].last = markup,
                                ![r].results =
                                   AppendResult(@, Entry(ti, ai, file, image, wpid, status))]
  /\ tpc' = [tpc EXCEPT ![r] = "l250"]
  /\ UNCHANGED <<results_file, trends_file>>
  /\ PipeFrame

\* main.py 168-247 for a candidate that has a URL and whose content was
\* fetched.  rewrite_article_content returns the rewritten markup, or its
\* fallback article when the API call fails (openai_utils.py 99-102): never an
\* empty value.  The markup is saved, the image provider returns a file or
\* None (image_utils.py 86-129), and with credentials the publisher returns an
\* id or None (wordpress_utils.py 172-178).
ArticleProcess(r) ==
  /\ tpc[r] = "l149"
  /\ \E markup \in {"rewritten", "fallback"}, img \in BOOLEAN, pub \in {"id", "none"} :
       LET ti == loc[r].ti
           ai == loc[r].ai
           file == Path("html", r, ti, ai)
           image == IF img THEN Path("img", r, ti, ai) ELSE NonePath
           post == IF cfg.wordpress THEN pub ELSE loc[r].post_id
           status == PublishStatus(cfg.wordpress, pub)
           wpid == IF cfg.wordpress /\ pub = "id" THEN "id" ELSE "none"
       IN /\ cfg.wordpress \/ pub = "none"
          /\ disk' = disk \cup {file} \cup (IF img THEN {image} ELSE {})
          /\ loc' = [loc EXCEPT ![r].file_path = file,
                                ![r].image_path = image,
                                ![r].post_id = post,
                                ![r].last = markup,
                                ![r].results =
                                   AppendResult(@, Entry(ti, ai, file, image, wpid, status))]
  /\ tpc' = [tpc EXCEPT ![r] = "l250"]
  /\ UNCHANGED <<results_file, trends_file>>
  /\ PipeFrame

\* main.py 250: time.sleep(2), then the next candidate.
ArticlePause(r) ==
  /\ tpc[r] = "l250"
  /\ loc' = [loc EXCEPT ![r].ai = @ + 1]
  /\ tpc' = [tpc EXCEPT ![r] = ArticleLoopPc(loc[r], loc[r].ai + 1)]
  /\ UNCHANGED <<results_file, trends_file, disk>>
  /\ PipeFrame

\* A cleanup that removes the files whatever post_id holds.
CleanupAlways(r) ==
  /\ tpc[r] = "l255"
  /\ loc[r].post_id # "unbound"
  /\ disk' = disk \ {loc[r].file_path, loc[r].image_path}
  /\ loc' = [loc EXCEPT ![r].ti = @ + 1]
  /\ tpc' = [tpc EXCEPT ![r] = TrendLoopPc(loc[r], loc[r].ti + 1)]
  /\ UNCHANGED <<results_file, trends_file>>
  /\ PipeFrame

\* main.py 255-269: the cleanup reads post_id, file_path and image_path as the
\* article loop left them.  os.remove is taken to succeed on a file that exists.
Cleanup(r) ==
  /\ tpc[r] = "l255"
  /\ loc[r].post_id # "unbound"
  /\ disk' = IF loc[r].post_id = "id"
               THEN disk \ {loc[r].file_path, loc[r].image_path}
               ELSE disk
  /\ loc' = [loc EXCEPT ![r].ti = @ + 1]
  /\ tpc' = [tpc EXCEPT ![r] = TrendLoopPc(loc[r], loc[r].ti + 1)]
  /\ UNCHANGED <<results_file, trends_file>>
  /\ PipeFrame

\* main.py 257: post_id is assigned only at line 209; read before any
\* assignment it raises UnboundLocalError, which line 283 turns into False.
CleanupUnbound(r) ==
  /\ tpc[r] = "l255"
  /\ loc[r].post_id = "unbound"
  /\ ReturnFalse(r)
  /\ UNCHANGED <<results_file, trends_file, disk>>
  /\ PipeFrame

\* main.py 272-273: open(results_file, "w") truncates results.json.
OpenResults(r) ==
  /\ tpc[r] = "l272"
  /\ results_file' = Truncated
  /\ tpc' = [tpc EXCEPT ![r] = "l274"]
  /\ UNCHANGED <<loc, trends_file, disk>>
  /\ PipeFrame

\* main.py 274-281: the summary is written from offset 0 and the file closed.
\* When another run wrote the file after this run truncated it, the bytes of
\* the two documents overlay: the result is this run's summary or no JSON
\* document, depending on their lengths.
DumpResults(r) ==
  /\ tpc[r] = "l274"
  /\ \/ results_file' = Valid(Summary(r, loc[r].results))
     \/ /\ results_file.state # "partial"
        /\ results_file' = Corrupt
  /\ loc' = [loc EXCEPT ![r] = Returned("true")]
  /\ tpc' = [tpc EXCEPT ![r] = "l56"]
  /\ UNCHANGED <<trends_file, disk>>
  /\ PipeFrame

\* ------------------------ get_pipeline_status, get_pipeline_results (app.py 98-120)
\* app.py 103-107.
StatusBody(ps) ==
  [is_running |-> ps.is_running, last_run |-> ps.last_run, last_status |-> ps.last_status]

\* A status read that consumes last_status.
GetStatusConsumes ==
  /\ status_resp' = [code |-> Ok200,
                     is_running |-> StatusBody(pipeline_status).is_running,
                     last_run |-> StatusBody(pipeline_status).last_run,
                     last_status |-> StatusBody(pipeline_status).last_status,
                     quiet |-> status_resp.code # 0 /\ ~since.start /\ ~since.write]
  /\ pipeline_status' = [pipeline_status EXCEPT !.last_status = "None"]
  /\ since' = [since EXCEPT !.start = FALSE, !.write = FALSE]
  /\ UNCHANGED <<clock, hpc, resp, tpc, loc, results_file, trends_file,
                 disk, cfg, nstarts, results_resp>>

GetStatus ==
  /\ status_resp' = [code |-> Ok200,
                     is_running |-> StatusBody(pipeline_status).is_running,
                     last_run |-> StatusBody(pipeline_status).last_run,
                     last_status |-> StatusBody(pipeline_status).last_status,
                     quiet |-> status_resp.code # 0 /\ ~since.start /\ ~since.write]
  /\ since' = [since EXCEPT !.start = FALSE, !.write = FALSE]
  /\ UNCHANGED <<pipeline_status, clock, hpc, resp, tpc, loc, results_file, trends_file,
                 disk, cfg, nstarts, results_resp>>

\* An answer that takes a summary without entries for no summary.
ResultsAnswerEmptyRun(ps) ==
  IF ps.results.total_processed = 0
    THEN [code |-> NotFound404, body |-> NoSummary]
    ELSE [code |-> Ok200, body |-> ps.results]

\* app.py 114-120: "not results" is true of None only, a loaded summary being a
\* dict with three keys.
ResultsAnswer(ps) ==
  IF ps.results = NoSummary
    THEN [code |-> NotFound404, body |-> NoSummary]
    ELSE [code |-> Ok200, body |-> ps.results]

GetResults ==
  /\ results_resp' = [code |-> ResultsAnswer(pipeline_status).code,
                      body |-> ResultsAnswer(pipeline_status).body,
                      quiet |-> results_resp.code # 0 /\ ~since.rstart /\ ~since.rwrite]
  /\ since' = [since EXCEPT !.rstart = FALSE, !.rwrite = FALSE]
  /\ UNCHANGED <<pipeline_status, clock, hpc, resp, tpc, loc, results_file, trends_file,
                 disk, cfg, nstarts, status_resp>>

\* ----------------------------------------------------------- specification
\* The steps of an accepted start request: its handler, its background thread.
AcceptedStep(r) ==
  \/ TriggerCheck(r) \/ TriggerSpawn(r) \/ TriggerAccept(r)
  \/ AsyncSetRunning(r) \/ AsyncSetLastRun(r)
  \/ RunEnter(r) \/ GetTrends(r) \/ WriteTrends(r) \/ GetNews(r)
  \/ ArticleFieldsRaise(r) \/ ArticleSkip(r) \/ ArticleProcess(r) \/ ArticlePause(r)
  \/ Cleanup(r) \/ CleanupUnbound(r) \/ OpenResults(r) \/ DumpResults(r)
  \/ AsyncClearRunning(r) \/ AsyncSetStatus(r) \/ AsyncLoadResults(r)
  \/ AsyncExceptClear(r) \/ AsyncExceptStatus(r)

Step(r) == AcceptedStep(r) \/ TriggerReject(r)

Next == \E r \in Req : Step(r)

\* A single start request finds is_running False: the branch of app.py 81-85
\* is never taken.
SoloNext == \E r \in Req : AcceptedStep(r)

Spec == Init /\ [][Next]_vars

PipeSpec == PipeInit /\ [][SoloNext]_vars

PollNext == SoloNext \/ GetStatus \/ GetResults

PollSpec == PollInit /\ [][PollNext]_vars

\* Concurrent clients against a configuration with WordPress credentials.
FairInit == Init /\ cfg.wordpress

\* Every started thread is scheduled again and again, and every request that
\* was received is answered: the steps of a handler or of a background thread
\* are never disabled by another thread.
FairSpec == FairInit /\ [][Next]_vars /\ \A r \in Req : WF_vars(Step(r))

\* One run whose handler and background thread are scheduled again and again.
FairPipeSpec ==
  PipeInit /\ [][SoloNext]_vars /\ \A r \in Req : WF_vars(AcceptedStep(r))

\* ===================================================================== claims
\* Positions of a background thread inside run_pipeline (main.py 117-281).
RunPcs == {"l123", "l132", "l136", "l149", "l250", "l255", "l272", "l274"}
InRunPipeline(r) == tpc[r] \in RunPcs

\* A start request that passed the check of app.py 80, and one that did not.
StartAccepted(r) == hpc[r] \in {"l88", "l92"} \/ resp[r].code = Accepted202
StartRejected(r) == hpc[r] = "l81" \/ resp[r].code = Conflict409

\* C1: of the start requests sent while no run is active exactly one is
\* accepted: there are never two accepted start requests whose background runs
\* have both not completed yet.
C1_OneStartAccepted ==
  \A r1, r2 \in Req :
    (r1 # r2 /\ StartAccepted(r1) /\ StartAccepted(r2))
      => (tpc[r1] = "done" \/ tpc[r2] = "done")

\* C2: in every reachable state at most one execution of run_pipeline is active.
C2_AtMostOneRun == Cardinality({r \in Req : InRunPipeline(r)}) <= 1

\* C3: when the 202 answer of an accepted start is built, is_running is true
\* and the run that start launched has already recorded its start time in
\* last_run, so that started_at is never null.
C3_StartedAtOfThisRun ==
  [][\A r \in Req :
       (hpc[r] = "l92" /\ hpc'[r] = "done")
         => /\ pipeline_status.is_running
            /\ tpc[r] \notin {"l49", "l50"}
            /\ resp'[r].code = Accepted202
            /\ resp'[r].started_at # NoTime]_vars

\* C4: a start request that finds is_running true is answered 409 with the
\* last_run of that moment, starts no thread and changes no field of
\* pipeline_status.
C4_RejectIsNoOp ==
  /\ [](\A r \in Req : StartRejected(r) => tpc[r] = "idle")
  /\ [][\A r \in Req :
          /\ (hpc[r] = "new" /\ hpc'[r] # "new" /\ pipeline_status.is_running)
               => (hpc'[r] = "l81" /\ tpc' = tpc /\ pipeline_status' = pipeline_status)
          /\ (hpc[r] = "l81" /\ hpc'[r] # "l81")
               => /\ hpc'[r] = "done"
                  /\ resp'[r] = [code |-> Conflict409,
                                 started_at |-> pipeline_status.last_run]
                  /\ tpc' = tpc
                  /\ pipeline_status' = pipeline_status]_vars

\* A start request was rejected while a run that had already recorded its
\* start time was active.
C4_Witness ==
  \E r \in Req : resp[r].code = Conflict409 /\ resp[r].started_at # NoTime

\* Every request is answered, every background thread has finished and the
\* flag is down.
Quiescent ==
  /\ \A r \in Req : (r <= nstarts => hpc[r] = "done") /\ ~Alive(r)
  /\ ~pipeline_status.is_running

\* C5: is_running rises only in the thread of an accepted start and falls only
\* in a thread whose run_pipeline call is over (returned or raised); it is
\* never true while no background thread is alive; and after every accepted
\* start the run ends and the flag falls again, for good once the last run is
\* over.
C5_RunningLifecycle ==
  /\ [][/\ (~pipeline_status.is_running /\ pipeline_status'.is_running)
             => \E r \in Req : StartAccepted(r) /\ tpc[r] = "l49" /\ tpc'[r] = "l50"
        /\ (pipeline_status.is_running /\ ~pipeline_status'.is_running)
             => \E r \in Req : tpc[r] \in {"l56", "l70"} /\ tpc'[r] \in {"l57", "l71"}
        /\ pipeline_status'.is_running => \E r \in Req : tpc'[r] \notin {"idle", "done"}]_vars
  /\ <>[]Quiescent

\* A run whose run_pipeline call raised has finished, and the flag is down.
C5_Witness ==
  \E r \in Req :
    /\ tpc[r] = "done"
    /\ loc[r].success = "unset"
    /\ pipeline_status.last_status = "error"
    /\ ~pipeline_status.is_running

\* C6: the status a finishing run writes is "success" exactly when its
\* run_pipeline call returned True, also when loading results.json fails.
C6_StatusFromResult ==
  [][\A r \in Req :
       (tpc[r] \in {"l57", "l71"} /\ tpc'[r] # tpc[r])
         => pipeline_status'.last_status = StatusOf(loc[r].success)]_vars

\* What a poll answer says, without the bookkeeping field quiet.
StatusSaid(a) == [code |-> a.code, is_running |-> a.is_running,
                  last_run |-> a.last_run, last_status |-> a.last_status]
ResultsSaid(a) == [code |-> a.code, body |-> a.body]

\* C7 as stated: status() and results() change no field of pipeline_status,
\* and a status() or results() answer equals the previous one whenever no
\* start request came between the two.
C7_PollsIdempotent ==
  [][/\ (GetStatus \/ GetResults) => pipeline_status' = pipeline_status
     /\ (GetStatus /\ status_resp.code # 0 /\ ~since.start)
          => StatusSaid(status_resp') = StatusSaid(status_resp)
     /\ (GetResults /\ results_resp.code # 0 /\ ~since.rstart)
          => ResultsSaid(results_resp') = ResultsSaid(results_resp)]_vars

\* C7 amended: status() and results() change no field of pipeline_status,
\* and a status() or results() answer equals the previous one whenever
\* neither a start request nor a write of pipeline_status by a background run
\* came between the two.
C7_PollsIdempotentWhenQuiet ==
  [][/\ (GetStatus \/ GetResults) => pipeline_status' = pipeline_status
     /\ (GetStatus /\ status_resp.code # 0 /\ ~since.start /\ ~since.write)
          => StatusSaid(status_resp') = StatusSaid(status_resp)
     /\ (GetResults /\ results_resp.code # 0 /\ ~since.rstart /\ ~since.rwrite)
          => ResultsSaid(results_resp') = ResultsSaid(results_resp)]_vars

\* Two status() answers and two results() answers in a row, given while a run
\* was active, with nothing between the two of each pair.
C7_Witness ==
  /\ status_resp.quiet /\ status_resp.is_running
  /\ results_resp.quiet
  /\ \E r \in Req : InRunPipeline(r)

\* C8: results() answers 404 exactly when pipeline_status holds no summary and
\* the held summary otherwise; a summary, once loaded, is only ever replaced by
\* another loaded summary; and a thread that finds no results.json at app.py 63
\* finishes without touching pipeline_status and without reaching the handler
\* of app.py 69.
C8_ResultsAvailability ==
  [][/\ GetResults
          => /\ (results_resp'.code = NotFound404) <=> (pipeline_status.results = NoSummary)
             /\ results_resp'.code \in {NotFound404, Ok200}
             /\ results_resp'.code = Ok200 => results_resp'.body = pipeline_status.results
     /\ pipeline_status'.results # pipeline_status.results
          => /\ pipeline_status'.results # NoSummary
             /\ FileLoads(results_file)
             /\ pipeline_status'.results = results_file.summary
             /\ \E r \in Req : tpc[r] = "l63" /\ tpc'[r] = "done"
     /\ \A r \in Req :
          (tpc[r] = "l63" /\ tpc'[r] # "l63" /\ ~FileExists(results_file))
            => (tpc'[r] = "done" /\ pipeline_status' = pipeline_status)]_vars

\* A run ended without results.json, and results() answered 404 after the
\* thread had written its status; the status says the run failed, the answer
\* says only that there is no summary.
C8_Witness ==
  /\ \E r \in Req : tpc[r] = "done" /\ loc[r].success = "false"
  /\ ~FileExists(results_file)
  /\ pipeline_status.results = NoSummary
  /\ results_resp.code = NotFound404
  /\ ~since.rwrite

\* C9: past main.py 127 the list of trends is never empty: with an empty list
\* run_pipeline returns False from line 127 in one step that writes no file
\* and reaches no line of the trend loop, and the tracker of that run ends
\* with last_status = "error", no trends.json, no results.json and no summary.
C9_NoTrendsFailsAtOnce ==
  /\ [](\A r \in Req : (InRunPipeline(r) /\ tpc[r] # "l123") => loc[r].ntrends >= 1)
  /\ [][\A r \in Req :
          /\ (tpc[r] = "l123" /\ tpc'[r] \notin {"l123", "l132"})
               => /\ tpc'[r] = "l56" /\ loc'[r].success = "false"
                  /\ UNCHANGED <<results_file, trends_file, disk, pipeline_status>>
          /\ (tpc[r] = "l57" /\ tpc'[r] # "l57" /\ loc[r].success = "false")
               => pipeline_status'.last_status = "error"]_vars
  /\ [](\A r \in Req :
          (tpc[r] = "done" /\ loc[r].success = "false" /\ trends_file = 0)
            => /\ pipeline_status.last_status = "error"
               /\ ~pipeline_status.is_running
               /\ pipeline_status.results = NoSummary
               /\ results_file = NoFile /\ disk = {})

\* A run whose trend source returned [] is over.
C9_Witness ==
  \E r \in Req :
    /\ tpc[r] = "done" /\ loc[r].success = "false" /\ trends_file = 0
    /\ pipeline_status.last_status = "error"

\* C10: the step of main.py 140-144 for a trend without news appends nothing
\* to results, writes no file, and goes on with the next trend, or with the
\* summary of line 272 when it was the last trend; the run is not left.
C10_EmptyTrendSkipped ==
  [][\A r \in Req :
       (tpc[r] = "l136" /\ loc'[r] # loc[r] /\ loc'[r].nnews = 0)
         => /\ loc'[r] = [loc[r] EXCEPT !.nnews = 0, !.ti = @ + 1]
            /\ tpc'[r] = IF loc[r].ti < loc[r].ntrends THEN "l136" ELSE "l272"
            /\ UNCHANGED <<results_file, trends_file, disk, pipeline_status>>]_vars

\* A run found no news for its first trend, went on, and returned True with a
\* summary whose entries all belong to the second trend.
C10_Witness ==
  \E r \in Req :
    /\ tpc[r] = "l56" /\ loc[r].success = "true"
    /\ results_file.state = "valid"
    /\ results_file.summary.results # <<>>
    /\ \A i \in DOMAIN results_file.summary.results :
         results_file.summary.results[i].trend = 2

\* How the processing of a candidate ended: dropped before the rewrite, or
\* recorded with the markup the rewriter returned.
EarlySkips == {"no_url", "fetch_fail"}
Recorded == {"rewritten", "fallback"}

\* A step of the background thread of r that leaves the position pc of
\* run_pipeline or changes its locals.
Leaves(r, pc) == tpc[r] = pc /\ (tpc'[r] # pc \/ loc'[r] # loc[r])

\* C11: with publish credentials configured, dropping a candidate for a
\* missing URL or a failed fetch changes neither results nor any file and goes
\* on with the next candidate, and the cleanup that follows a trend whose last
\* candidate was dropped goes on with the next trend or with results.json:
\* the run is never left for a return of False.
C11_SkipsAffectOneArticle ==
  [][\A r \in Req :
       /\ (cfg.wordpress /\ tpc[r] = "l149" /\ loc'[r].last \in EarlySkips
             /\ loc'[r].ai = loc[r].ai + 1)
            => /\ tpc'[r] \in {"l149", "l255"}
               /\ loc'[r].results = loc[r].results
               /\ UNCHANGED <<results_file, trends_file, disk>>
       /\ (cfg.wordpress /\ Leaves(r, "l255") /\ loc[r].last \in EarlySkips)
            => tpc'[r] \in {"l136", "l272"}]_vars

\* C12: without publish credentials a recorded candidate gets the status
\* not_published_no_credentials and post_id is not assigned, and the cleanup
\* that follows its trend removes no file and goes on with the next trend or
\* with results.json.
C12_NoCredentialsRunFinishes ==
  [][\A r \in Req :
       /\ (~cfg.wordpress /\ tpc[r] = "l149" /\ tpc'[r] = "l250")
            => /\ loc'[r].post_id = loc[r].post_id
               /\ Len(loc'[r].results) = Len(loc[r].results) + 1
               /\ loc'[r].results[Len(loc'[r].results)].status
                    = "not_published_no_credentials"
       /\ (~cfg.wordpress /\ Leaves(r, "l255") /\ loc[r].last \in Recorded)
            => /\ tpc'[r] \in {"l136", "l272"}
               /\ disk' = disk]_vars

\* Entry i of the list res is the last entry of its trend.
LastOfTrend(res, i) == \A j \in DOMAIN res : j > i => res[j].trend # res[i].trend

\* What C13 says of one entry; cleaned: the cleanup of its trend ran with the
\* entry's article as the last one processed.
EntryConsistent(e, cleaned) ==
  /\ e.status \in {"published", "not_published", "not_published_no_credentials"}
  /\ e.status = "published"
       => /\ e.wordpress_id = "id"
          /\ cleaned => (e.file_path \notin disk /\ e.image_path \notin disk)
  /\ e.status # "published"
       => /\ e.wordpress_id = "none"
          /\ e.file_path \in disk
          /\ e.image_path = NonePath \/ e.image_path \in disk

C14_PublishFailureDowngrades ==
  [][\A r \in Req :
       /\ (cfg.wordpress /\ tpc[r] = "l149" /\ tpc'[r] = "l250")
            => LET new == loc'[r].results
                   e == new[Len(new)]
               IN /\ Len(new) = Len(loc[r].results) + 1
                  /\ SubSeq(new, 1, Len(new) - 1) = loc[r].results
                  /\ loc'[r].post_id \in {"id", "none"}
                  /\ loc'[r].post_id = "id"
                       => (e.status = "published" /\ e.wordpress_id = "id")
                  /\ loc'[r].post_id = "none"
                       => (e.status = "not_published" /\ e.wordpress_id = "none")
                  /\ e.trend = loc[r].ti /\ e.art = loc[r].ai
       /\ Leaves(r, "l250")
            => /\ tpc'[r] \in {"l149", "l255"}
               /\ loc'[r].ai = loc[r].ai + 1
               /\ loc'[r].results = loc[r].results]_vars

\* The publisher returned None for the first candidate of a trend, the entry
\* not_published was appended, and the second candidate is being processed.
C14_Witness ==
  \E r \in Req :
    /\ cfg.wordpress /\ tpc[r] = "l149" /\ loc[r].ai = 2
    /\ loc[r].results # <<>>
    /\ loc[r].results[Len(loc[r].results)].status = "not_published"
    /\ loc[r].results[Len(loc[r].results)].trend = loc[r].ti
    /\ loc[r].post_id = "none"

\* The step of the thread of r that ends the processing of one candidate
\* inside the article loop (the candidate is recorded or dropped).
CandidateStep(r) ==
  /\ tpc[r] = "l149"
  /\ tpc'[r] \in {"l149", "l250", "l255"}
  /\ loc'[r] # loc[r]

\* No two entries of a results list stand for the same candidate.
OnePerCandidate(res) ==
  \A i, j \in DOMAIN res :
    (res[i].trend = res[j].trend /\ res[i].art = res[j].art) => i = j

\* C15 as stated: a candidate whose rewrite returned markup gets exactly one
\* entry, also when a later step of its processing raised; a candidate
\* dropped before the rewrite gets none; no candidate has two entries.
C15_OneResultPerRewrite ==
  /\ [](\A r \in Req : OnePerCandidate(loc[r].results))
  /\ [][\A r \in Req :
          CandidateStep(r)
            => IF loc'[r].last \in Recorded \cup {"save_raise"}
                 THEN Len(loc'[r].results) = Len(loc[r].results) + 1
                 ELSE loc'[r].results = loc[r].results]_vars

\* C15 amended: a candidate whose rewrite returned markup and whose later
\* steps (title extraction, save, image, publish) raised nothing gets exactly
\* one entry, for itself, in whichever publish branch; a candidate dropped
\* before the rewrite or by an exception after it gets none; no candidate has
\* two entries.
C15_OneResultPerRecorded ==
  /\ [](\A r \in Req : OnePerCandidate(loc[r].results))
  /\ [][\A r \in Req :
          CandidateStep(r)
            => IF loc'[r].last \in Recorded
                 THEN /\ Len(loc'[r].results) = Len(loc[r].results) + 1
                      /\ loc'[r].results[Len(loc'[r].results)].trend = loc[r].ti
                      /\ loc'[r].results[Len(loc'[r].results)].art = loc[r].ai
                 ELSE loc'[r].results = loc[r].results]_vars

\* Of the two candidates of a trend the first was recorded and the second was
\* dropped by an exception after its rewrite: the list holds one entry.
C15_Witness ==
  \E r \in Req :
    /\ tpc[r] = "l255" /\ loc[r].nnews = 2 /\ loc[r].last = "save_raise"
    /\ Len(loc[r].results) = 1
    /\ loc[r].results[1].art = 1

\* C16: whatever goes wrong while one candidate is processed, from reading
\* its fields on, the step ends inside the article loop or at the cleanup of
\* its trend: the loop is never left for a return of False.
C16_ArticleFailureIsSkip ==
  [][\A r \in Req :
       Leaves(r, "l149") => tpc'[r] \in {"l149", "l250", "l255"}]_vars

\* The entries of a results list stand in the order of processing: by trend,
\* and within a trend by candidate.
Ordered(res) ==
  \A i, j \in DOMAIN res :
    i < j => \/ res[i].trend < res[j].trend
             \/ res[i].trend = res[j].trend /\ res[i].art < res[j].art

\* C17: inside a run the trend index never goes back and advances by one at a
\* time, within a trend the candidate index does the same, every entry of the
\* results list belongs to a candidate already reached, and the list, like
\* every summary written from it, is in the order of processing.
C17_ProcessingOrder ==
  /\ [](\A r \in Req :
          /\ Ordered(loc[r].results)
          /\ \A i \in DOMAIN loc[r].results :
               \/ loc[r].results[i].trend < loc[r].ti
               \/ /\ loc[r].results[i].trend = loc[r].ti
                  /\ loc[r].results[i].art <= loc[r].ai)
  /\ [](results_file.state = "valid" => Ordered(results_file.summary.results))
  /\ [][\A r \in Req :
          (InRunPipeline(r) /\ tpc[r] # "l132" /\ tpc'[r] \in RunPcs)
            => /\ loc'[r].ti \in {loc[r].ti, loc[r].ti + 1}
               /\ (tpc[r] \in {"l149", "l250"} /\ loc'[r].ti = loc[r].ti)
                    => loc'[r].ai \in {loc[r].ai, loc[r].ai + 1}
               /\ (tpc[r] = "l136" /\ tpc'[r] = "l149") => loc'[r].ai = 1]_vars

\* A summary with entries of both trends, two of them of one trend.
C17_Witness ==
  /\ results_file.state = "valid"
  /\ Len(results_file.summary.results) >= 3
  /\ results_file.summary.results[1].trend = 1
  /\ results_file.summary.results[Len(results_file.summary.results)].trend = 2

\* C18: in every summary written to results.json, and in the summary the
\* tracker loaded from it, total_processed is the length of results.
C18_TotalProcessed ==
  /\ results_file.state = "valid"
       => results_file.summary.total_processed = Len(results_file.summary.results)
  /\ pipeline_status.results # NoSummary
       => pipeline_status.results.total_processed = Len(pipeline_status.results.results)

\* The tracker loaded a summary of two entries.
C18_Witness ==
  /\ pipeline_status.results # NoSummary
  /\ pipeline_status.results.total_processed = 2
  /\ pipeline_status.results = results_file.summary

\* C19: the call of run_pipeline at app.py 53 is left only by a return of
\* True or False, never by an exception, and a run that did not return True
\* leaves last_status = "error".
C19_NoExceptionEscapes ==
  /\ [][\A r \in Req :
          (tpc[r] \in RunPcs \cup {"l53"} /\ tpc'[r] \notin RunPcs \cup {"l53"})
            => (tpc'[r] = "l56" /\ loc'[r].success \in {"true", "false"})]_vars
  /\ [](\A r \in Req :
          (tpc[r] = "done" /\ loc[r].success # "true")
            => pipeline_status.last_status = "error")

C21_FailedRewriteSkips ==
  [][\A r \in Req :
       (CandidateStep(r) /\ loc'[r].last = "fallback")
         => /\ disk' = disk
            /\ loc'[r].results = loc[r].results
            /\ loc'[r].post_id = loc[r].post_id
            /\ loc'[r].file_path = loc[r].file_path
            /\ loc'[r].image_path = loc[r].image_path
            /\ tpc'[r] \in {"l149", "l255"}]_vars

\* C22: the article loop reaches the next candidate of a trend only through
\* the pause of main.py 250, whatever became of the candidate before it.
C22_PauseBeforeNextCandidate ==
  [][\A r \in Req :
       (tpc'[r] = "l149" /\ loc'[r].ai = loc[r].ai + 1 /\ loc'[r].ti = loc[r].ti)
         => tpc[r] = "l250"]_vars

\* C23: a candidate for which the image provider returned None is processed
\* like any other: its markup file is saved, with credentials the publisher
\* is called (post_id holds what it returned) and the status follows from it,
\* and exactly one entry, without image, is appended.
C23_MissingImageNonFatal ==
  [][\A r \in Req :
       (tpc[r] = "l149" /\ tpc'[r] = "l250" /\ loc'[r].image_path = NonePath)
         => LET new == loc'[r].results
            IN /\ loc'[r].last \in Recorded
               /\ disk' = disk \cup {loc'[r].file_path}
               /\ Len(new) = Len(loc[r].results) + 1
               /\ new[Len(new)].image_path = NonePath
               /\ new[Len(new)].file_path = loc'[r].file_path
               /\ cfg.wordpress
                    => /\ loc'[r].post_id \in {"id", "none"}
                       /\ new[Len(new)].status = PublishStatus(TRUE, loc'[r].post_id)
                       /\ new[Len(new)].wordpress_id = loc'[r].post_id]_vars

\* A summary holds a published entry without image.
C23_Witness ==
  /\ results_file.state = "valid"
  /\ \E i \in DOMAIN results_file.summary.results :
       /\ results_file.summary.results[i].status = "published"
       /\ results_file.summary.results[i].image_path = NonePath

\* The background thread of r was started and its run_pipeline call is not
\* over yet (app.py 90 done, app.py 53 not yet returned).
RunInProgress(r) == tpc[r] \in RunPcs \cup {"l49", "l50", "l53"}

\* C24: while the background run of an accepted start is in progress
\* is_running is true, and a start request that arrives then is rejected.
C24_RunningFlagTruthful ==
  /\ [](\A r \in Req : RunInProgress(r) => pipeline_status.is_running)
  /\ [][\A r, q \in Req :
          (RunInProgress(r) /\ hpc[q] = "new" /\ hpc'[q] # "new") => hpc'[q] = "l81"]_vars

\* A thread of which run_pipeline returned True and that has not loaded
\* results.json yet (app.py 56-65).
Completing(r) == tpc[r] \in {"l56", "l57", "l63"} /\ loc[r].success = "true"

\* C25: when pipeline_status says idle with last_status "success", it holds a
\* summary, the one that is in results.json; and while a thread stands
\* between the return of run_pipeline and the load of results.json no start
\* request is accepted and no other thread touches results.json.
C25_CompletionAtomic ==
  /\ []((~pipeline_status.is_running /\ pipeline_status.last_status = "success")
          => (pipeline_status.results # NoSummary
               /\ pipeline_status.results = results_file.summary))
  /\ [][\A r, q \in Req :
          Completing(r)
            => /\ (hpc[q] = "new" /\ hpc'[q] # "new") => hpc'[q] = "l81"
               /\ results_file' = results_file]_vars

\* C26: once every request is answered and every thread has finished, if the
\* run started last did not return True and last_status says "error", then
\* pipeline_status does not hold the summary of a run started before it.
C26_NoStaleSummary ==
  \A r \in Req :
    ( /\ Quiescent
      /\ tpc[r] = "done" /\ loc[r].success # "true"
      /\ \A q \in Req : q > r => tpc[q] = "idle"
      /\ pipeline_status.last_status = "error" )
      => \A q \in Req : q < r => pipeline_status.results.run # q

\* C27: a run touches results.json only in the two steps of main.py 272-281,
\* which it takes at most once and only when the trend loop is over (every
\* trend was reached and left); it returns True exactly from the step that
\* writes the summary; it writes trends.json only in the step of main.py 132,
\* which it takes once, with a non-empty list, before any call of the news
\* source.
C27_FilesWrittenOnce ==
  /\ [](\A r \in Req :
          /\ tpc[r] \in {"l272", "l274"} => loc[r].ti = loc[r].ntrends + 1
          /\ tpc[r] = "l132" => (loc[r].ntrends >= 1 /\ loc[r].ti = 0)
          /\ tpc[r] \in {"l136", "l149", "l250", "l255", "l272", "l274"}
               => trends_file # 0)
  /\ [][/\ results_file' # results_file
            => \E r \in Req :
                 \/ tpc[r] = "l272" /\ tpc'[r] = "l274"
                 \/ tpc[r] = "l274" /\ tpc'[r] = "l56"
        /\ trends_file' # trends_file
            => \E r \in Req : tpc[r] = "l132" /\ tpc'[r] = "l136" /\ trends_file' = r
        /\ \A r \in Req :
             /\ (tpc'[r] = "l132" /\ tpc[r] # "l132") => tpc[r] = "l123"
             /\ (tpc'[r] = "l272" /\ tpc[r] # "l272") => tpc[r] \in {"l136", "l255"}
             /\ (tpc'[r] = "l274" /\ tpc[r] # "l274") => tpc[r] = "l272"
             /\ (tpc[r] \in RunPcs /\ tpc'[r] = "l56")
                  => ((loc'[r].success = "true")
                        <=> (tpc[r] = "l274" /\ results_file'.state \in {"valid", "corrupt"}))]_vars

\* A run over two trends wrote trends.json and the summary, and returned True.
C27_Witness ==
  \E r \in Req :
    /\ tpc[r] = "l56" /\ loc[r].success = "true"
    /\ trends_file = r
    /\ results_file.state = "valid" /\ results_file.summary.run = r
    /\ cfg.max_trends = 2
    /\ \E i \in DOMAIN results_file.summary.results :
         results_file.summary.results[i].trend = 2

\* C28: every call of run_pipeline returns, True or False, to app.py 53; each
\* candidate is gone through once (a step at the head of the article loop
\* moves on to the next candidate or leaves the loop); and the results list
\* never holds more than MAX_TRENDS x MAX_NEWS_PER_TREND entries.
C28_RunTerminates ==
  /\ \A r \in Req : (tpc[r] = "l53") ~> (tpc[r] = "l56")
  /\ [](\A r \in Req : Len(loc[r].results) <= cfg.max_trends * cfg.max_news)
  /\ [][\A r \in Req :
          Leaves(r, "l149")
            => (tpc'[r] # "l149" \/ loc'[r].ai = loc[r].ai + 1)]_vars

====
